---- MODULE Spec2Model ----
(***************************************************************************)
(* Model of the xdist worker (src/src/xdist/remote.py): the               *)
(* WorkerInteractor hook implementations, the command loop of             *)
(* pytest_runtestloop and run_one_test.                                   *)
(*                                                                         *)
(* The worker is single threaded.  The host (pytest) calls the hooks in   *)
(* its session order: sessionstart, collection, collection_finish,        *)
(* runtestloop, sessionfinish.  pytest_runtest_protocol is a synchronous   *)
(* host call made by run_one_test; the host calls back logstart, one      *)
(* logreport per phase and logfinish before it returns.                   *)
(***************************************************************************)
EXTENDS Integers, Sequences, FiniteSets, TLC

\* ---------------------------------------------------------------- bounds
\* largest collected test plan (len(session.items))
MaxItems == 3
\* most commands the controller sends before it closes the channel
MaxCmds == 2
\* most indices the controller enqueues over a session
MaxQueue == 3
\* most collection reports the host makes
MaxCollect == 2
\* the internal errors the host routes while the run loop is running
MaxIErr == 1

VARIABLES
    pc,          \* where the host / the run loop stands
    items,       \* session.items: the collected plan
    torun,       \* the run queue (local of pytest_runtestloop)
    name,        \* name of the command last received
    item_index,  \* self.item_index (unset until the first run_one_test)
    events,      \* everything sent with channel.send, in order
    workeroutput,\* config.workeroutput
    error,       \* exception that left the run loop, "none" otherwise
    exitReason,  \* how the run loop ended: "none", "eof", "shutdown", "error"
    received,    \* history: commands received, in order
    enqueued,    \* history: indices the commands carried, in arrival order
    drained,     \* history: indices popped by run_one_test, in order
    executed,    \* history: one record per pytest_runtest_protocol call
    remain,      \* history: queue length when the shutdown branch is entered
    finish,      \* history: the steps of the host's finish sequence, in order
    collected,   \* history: outcomes of the collection reports handled
    routed,      \* history: the internal errors the host routed to the worker
    warning      \* the warning record handed to pytest_warning_recorded

\* what the session hooks outside the run loop read and write
hostvars == <<collected, routed, warning>>

vars == <<pc, items, torun, name, item_index, events, workeroutput, error,
          exitReason, received, enqueued, drained, executed, remain, finish,
          hostvars>>

\* ------------------------------------------------------------ python data
\* Python's None
None == [none |-> TRUE]

\* attribute not set yet (reading it raises AttributeError)
Unset == [unset |-> TRUE]

\* the reports the host makes when it runs the item at plan position p:
\* setup, call and teardown; setup and teardown when setup does not pass;
\* none when another plugin's protocol reports nothing
HostReports(p) ==
    IF p % 3 = 0 THEN <<"setup", "call", "teardown">>
    ELSE IF p % 3 = 1 THEN <<"setup", "teardown">>
    ELSE <<>>

\* the item collected at plan position p, with its nodeid
Item(p) == [pos |-> p, nodeid |-> <<"test", p>>]

\* the plan the host collected: n items
Plan(n) == [k \in 1..n |-> Item(k - 1)]

\* list[i] does not raise IndexError (negative indices count from the end)
PyValid(its, i) == (0 - Len(its)) <= i /\ i < Len(its)

\* list[i]
PyGet(its, i) == IF i >= 0 THEN its[i + 1] ELSE its[Len(its) + i + 1]

\* range(len(session.items)) as a list
RangeAllOffByOne(its) == [k \in 1..(Len(its) + 1) |-> k - 1]

RangeAll(its) == [k \in 1..Len(its) |-> k - 1]

\* torun.extend(more)
ExtendSorted(q, more) == SortSeq(q \o more, <)

Extend(q, more) == q \o more

\* the run loop's drain condition: an item and a next item
CanDrainOne(q) == Len(q) >= 1

CanDrainThree(q) == Len(q) >= 3

CanDrain(q) == Len(q) >= 2

\* torun.pop(0): the value popped
PopIndexLast(q) == q[Len(q)]

PopIndex(q) == Head(q)

\* torun.pop(0): what stays in the list
PopRest(q) == Tail(q)

\* items[self.item_index]
CurrentItemOffByOne(its, idx) ==
    IF PyValid(its, idx - 1) THEN PyGet(its, idx - 1) ELSE PyGet(its, idx)

CurrentItem(its, idx) == PyGet(its, idx)

\* nextitem = items[torun[0]] if torun else None
LookaheadPlanOrder(its, idx, rest) ==
    IF PyValid(its, idx + 1) /\ idx + 1 >= 0 THEN PyGet(its, idx + 1) ELSE None

Lookahead(its, idx, rest) ==
    IF rest # <<>> THEN PyGet(its, Head(rest)) ELSE None

\* self.channel.send((name, kwargs))
sendevent(evs, ev) == Append(evs, ev)

\* ---------------------------------------------------- controller commands
\* indices a runtests payload may carry: the plan's, one below and one above
IndexDomain(its) == (0 - 1)..Len(its)

\* sequences over S of length 0..n
RECURSIVE SeqsUpTo(_, _)
SeqsUpTo(S, n) ==
    IF n = 0 THEN {<<>>}
    ELSE LET shorter == SeqsUpTo(S, n - 1)
         IN  shorter \cup {Append(s, x) : s \in {t \in shorter : Len(t) = n - 1}, x \in S}

\* the commands the controller may send next
Commands(its, room) ==
    {[name |-> "runtests", indices |-> s] : s \in SeqsUpTo(IndexDomain(its), room)}
    \cup {[name |-> c, indices |-> <<>>] : c \in {"runtests_all", "shutdown", "noop"}}

\* what a command adds to the queue
Payload(cmd, its) ==
    IF cmd.name = "runtests" THEN cmd.indices
    ELSE IF cmd.name = "runtests_all" THEN [k \in 1..Len(its) |-> k - 1]
    ELSE <<>>

\* ----------------------------------------------------------------- hooks
\* pytest_runtest_logstart
LogStart(evs, nodeid) == sendevent(evs, [name |-> "logstart", nodeid |-> nodeid])

\* pytest_runtest_logfinish, sending the wrong event name
LogFinishAsStart(evs, nodeid) == sendevent(evs, [name |-> "logstart", nodeid |-> nodeid])

\* pytest_runtest_logfinish
LogFinish(evs, nodeid) == sendevent(evs, [name |-> "logfinish", nodeid |-> nodeid])

\* pytest_runtest_logreport: the assertion, then the testreport event
LogReport(st, its, cur, nodeid, when) ==
    IF ~st.ok THEN st
    ELSE IF PyGet(its, cur).nodeid = nodeid
    THEN [ok |-> TRUE,
          events |-> sendevent(st.events,
                        [name |-> "testreport", item_index |-> cur,
                         nodeid |-> nodeid, when |-> when])]
    ELSE [ok |-> FALSE, events |-> st.events]

RECURSIVE LogReports(_, _, _, _, _)
LogReports(st, its, cur, nodeid, whens) ==
    IF whens = <<>> THEN st
    ELSE LogReports(LogReport(st, its, cur, nodeid, Head(whens)),
                    its, cur, nodeid, Tail(whens))

\* config.hook.pytest_runtest_protocol(item=item, nextitem=nextitem): the
\* host's call backs for one item
RunProtocol(evs, its, cur, item, whens) ==
    LET st == LogReports([ok |-> TRUE, events |-> LogStart(evs, item.nodeid)],
                         its, cur, item.nodeid, whens)
    IN  IF st.ok THEN [ok |-> TRUE, events |-> LogFinish(st.events, item.nodeid)]
        ELSE st

\* run_one_test(torun), called from the branch `phase` of the run loop
run_one_test(phase) ==
    LET idx  == PopIndex(torun)
        rest == PopRest(torun)
    IN  /\ item_index' = idx
        /\ torun' = rest
        /\ drained' = Append(drained, idx)
        /\ IF ~PyValid(items, idx) \/ (rest # <<>> /\ ~PyValid(items, Head(rest)))
           THEN /\ error' = "IndexError"
                /\ pc' = "raised"
                /\ exitReason' = "error"
                /\ UNCHANGED <<events, executed>>
           ELSE LET item     == CurrentItem(items, idx)
                    nextitem == Lookahead(items, idx, rest)
                    run      == RunProtocol(events, items, idx, item,
                                            HostReports(item.pos))
                IN  /\ executed' = Append(executed,
                                     [index |-> idx, item |-> item,
                                      nextitem |-> nextitem, after |-> rest,
                                      cmd |-> name, phase |-> phase])
                    /\ IF run.ok
                       THEN /\ events' = sendevent(run.events,
                                           [name |-> "runtest_protocol_complete",
                                            item_index |-> idx])
                            /\ error' = error
                            /\ pc' = IF phase = "final" THEN "exit" ELSE "drain"
                            /\ exitReason' = IF phase = "final" THEN "shutdown"
                                             ELSE exitReason
                       ELSE /\ events' = run.events
                            /\ error' = "AssertionError"
                            /\ pc' = "raised"
                            /\ exitReason' = "error"

\* pytest_sessionstart
pytest_sessionstart ==
    /\ pc = "sessionstart"
    /\ events' = sendevent(events, [name |-> "workerready"])
    /\ pc' = "collection"
    /\ UNCHANGED <<items, torun, name, item_index, workeroutput, error,
                   exitReason, received, enqueued, drained, executed, remain>>
    /\ UNCHANGED <<finish, hostvars>>

\* pytest_collection, without its event
pytest_collection_silent ==
    /\ pc = "collection"
    /\ pc' = "collection_finish"
    /\ UNCHANGED <<events, items, torun, name, item_index, workeroutput, error,
                   exitReason, received, enqueued, drained, executed, remain>>
    /\ UNCHANGED <<finish, hostvars>>

\* pytest_collection
pytest_collection ==
    /\ pc = "collection"
    /\ events' = sendevent(events, [name |-> "collectionstart"])
    /\ pc' = "collection_finish"
    /\ UNCHANGED <<items, torun, name, item_index, workeroutput, error,
                   exitReason, received, enqueued, drained, executed, remain>>
    /\ UNCHANGED <<finish, hostvars>>

\* the outcomes of a collection report; report.passed is outcome == "passed"
CollectOutcomes == {"passed", "failed", "skipped"}

\* report.passed
ReportPassed(report) == report.outcome = "passed"

\* config.hook.pytest_report_to_serializable(config=..., report=report)
ReportToSerializable(report) ==
    [report_type |-> "CollectReport", nodeid |-> report.nodeid,
     outcome |-> report.outcome]

\* pytest_collectreport: every report is sent
SendsCollectReportAlways(report) == TRUE

\* pytest_collectreport: if not report.passed
SendsCollectReport(report) == ~ReportPassed(report)

\* pytest_collectreport, called by the host for each collector it collected
pytest_collectreport ==
    /\ pc = "collection_finish"
    /\ Len(collected) < MaxCollect
    /\ \E outcome \in CollectOutcomes :
        LET report == [nodeid |-> <<"collector", Len(collected)>>,
                       outcome |-> outcome]
        IN  /\ collected' = Append(collected, report)
            /\ events' = IF SendsCollectReport(report)
                         THEN sendevent(events,
                                [name |-> "collectreport",
                                 data |-> ReportToSerializable(report)])
                         ELSE events
    /\ UNCHANGED <<pc, items, torun, name, item_index, workeroutput, error,
                   exitReason, received, enqueued, drained, executed, remain,
                   finish, routed, warning>>

\* pytest_collection_finish
pytest_collection_finish ==
    /\ pc = "collection_finish"
    /\ events' = sendevent(events,
                    [name |-> "collectionfinish",
                     ids |-> [k \in 1..Len(items) |-> items[k].nodeid]])
    /\ pc' = "runtestloop"
    /\ UNCHANGED <<items, torun, name, item_index, workeroutput, error,
                   exitReason, received, enqueued, drained, executed, remain>>
    /\ UNCHANGED <<finish, hostvars>>

\* pytest_runtestloop: entering the main loop
pytest_runtestloop ==
    /\ pc = "runtestloop"
    /\ torun' = <<>>
    /\ pc' = "receive"
    /\ UNCHANGED <<items, name, item_index, events, workeroutput, error,
                   exitReason, received, enqueued, drained, executed, remain>>
    /\ UNCHANGED <<finish, hostvars>>

\* the merge of a command into the queue, `elif name == "runtests_all"`
\* written as `else`
MergeElseAll(q, cmd, its) ==
    IF cmd.name = "runtests" THEN Extend(q, cmd.indices)
    ELSE Extend(q, RangeAll(its))

\* the merge of a command into the queue: runtests extends it by the
\* payload, runtests_all by the whole plan, any other name by nothing
Merge(q, cmd, its) ==
    IF cmd.name = "runtests" THEN Extend(q, cmd.indices)
    ELSE IF cmd.name = "runtests_all" THEN Extend(q, RangeAll(its))
    ELSE q

\* the run loop receives a command and merges it into the queue
loop_receive ==
    /\ pc = "receive"
    /\ \E cmd \in Commands(items, MaxQueue - Len(enqueued)) :
        /\ cmd.name = "shutdown" \/ Len(received) < MaxCmds
        /\ Len(enqueued) + Len(Payload(cmd, items)) <= MaxQueue
        /\ name' = cmd.name
        /\ torun' = Merge(torun, cmd, items)
        /\ received' = Append(received, cmd)
        /\ enqueued' = enqueued \o Payload(cmd, items)
    /\ pc' = "drain"
    /\ UNCHANGED <<items, item_index, events, workeroutput, error, exitReason,
                   drained, executed, remain>>
    /\ UNCHANGED <<finish, hostvars>>

\* channel.receive() raises EOFError and nothing catches it
loop_receive_eof_uncaught ==
    /\ pc = "receive"
    /\ pc' = "raised"
    /\ error' = "EOFError"
    /\ exitReason' = "eof"
    /\ UNCHANGED <<items, torun, name, item_index, events, workeroutput,
                   received, enqueued, drained, executed, remain>>
    /\ UNCHANGED <<finish, hostvars>>

\* channel.receive() raises EOFError: return True
loop_receive_eof ==
    /\ pc = "receive"
    /\ pc' = "exit"
    /\ exitReason' = "eof"
    /\ UNCHANGED <<items, torun, name, item_index, events, workeroutput, error,
                   received, enqueued, drained, executed, remain>>
    /\ UNCHANGED <<finish, hostvars>>

\* while len(torun) >= 2: self.run_one_test(torun)
loop_drain ==
    /\ pc = "drain"
    /\ CanDrain(torun)
    /\ run_one_test("loop")
    /\ UNCHANGED <<items, name, workeroutput, received, enqueued, remain>>
    /\ UNCHANGED <<finish, hostvars>>

\* the drain loop is over: receive again, whatever the command was
loop_continue_always ==
    /\ pc = "drain"
    /\ ~CanDrain(torun)
    /\ pc' = "receive"
    /\ UNCHANGED <<items, torun, name, item_index, events, workeroutput, error,
                   exitReason, received, enqueued, drained, executed, remain>>
    /\ UNCHANGED <<finish, hostvars>>

\* the drain loop is over and the command was not shutdown: receive again
loop_continue ==
    /\ pc = "drain"
    /\ ~CanDrain(torun)
    /\ name # "shutdown"
    /\ pc' = "receive"
    /\ UNCHANGED <<items, torun, name, item_index, events, workeroutput, error,
                   exitReason, received, enqueued, drained, executed, remain>>
    /\ UNCHANGED <<finish, hostvars>>

\* if name == "shutdown": break, without the final run_one_test
loop_shutdown_nodrain ==
    /\ pc = "drain"
    /\ ~CanDrain(torun)
    /\ name = "shutdown"
    /\ remain' = Len(torun)
    /\ pc' = "exit"
    /\ exitReason' = "shutdown"
    /\ UNCHANGED <<torun, item_index, events, error, drained, executed>>
    /\ UNCHANGED <<items, name, workeroutput, received, enqueued>>
    /\ UNCHANGED <<finish, hostvars>>

\* if name == "shutdown": the final run_one_test if anything is left, break
loop_shutdown ==
    /\ pc = "drain"
    /\ ~CanDrain(torun)
    /\ name = "shutdown"
    /\ remain' = Len(torun)
    /\ IF torun # <<>>
       THEN run_one_test("final")
       ELSE /\ pc' = "exit"
            /\ exitReason' = "shutdown"
            /\ UNCHANGED <<torun, item_index, events, error, drained, executed>>
    /\ UNCHANGED <<items, name, workeroutput, received, enqueued>>
    /\ UNCHANGED <<finish, hostvars>>

\* the errors a hook of the host or of a plugin may raise during dispatch
HostErrors == {"HookError"}

\* the representation of an exception the host hands to pytest_internalerror
ExcRepr(exc) == [reprcrash |-> exc]

\* str(excrepr)
FormatError(excrepr) == excrepr.reprcrash

\* the body of pytest_internalerror, sending one event per logged line
InternalErrorPerLine(evs, excrepr) ==
    sendevent(sendevent(evs, [name |-> "internal_error",
                              formatted_error |-> FormatError(excrepr)]),
              [name |-> "internal_error",
               formatted_error |-> FormatError(excrepr)])

\* the body of pytest_internalerror: format, log, send one event
InternalError(evs, excrepr) ==
    sendevent(evs, [name |-> "internal_error",
                    formatted_error |-> FormatError(excrepr)])

\* pytest_internalerror: the host routes the exception that left the run loop
pytest_internalerror ==
    /\ pc = "raised"
    /\ events' = InternalError(events, ExcRepr(error))
    /\ routed' = Append(routed, [exc |-> error, at |-> Len(received)])
    /\ pc' = "exit"
    /\ UNCHANGED <<items, torun, name, item_index, workeroutput, error,
                   exitReason, received, enqueued, drained, executed, remain>>
    /\ UNCHANGED <<finish, collected, warning>>

\* pytest_internalerror: the host routes an error raised during hook
\* dispatch while the run loop is running, here after the items a command
\* made runnable were run, and once per command
pytest_internalerror_inloop ==
    /\ pc = "drain"
    /\ ~CanDrain(torun)
    /\ Len(routed) < MaxIErr
    /\ \A k \in DOMAIN routed : routed[k].at # Len(received)
    /\ \E exc \in HostErrors :
        /\ events' = InternalError(events, ExcRepr(exc))
        /\ routed' = Append(routed, [exc |-> exc, at |-> Len(received)])
    /\ UNCHANGED <<pc, items, torun, name, item_index, workeroutput, error,
                   exitReason, received, enqueued, drained, executed, remain>>
    /\ UNCHANGED <<finish, collected, warning>>

\* the exit codes the host passes to pytest_sessionfinish (an IntEnum)
ExitCodes == {"OK", "TESTS_FAILED", "INTERNAL_ERROR"}

\* int(exitstatus)
ExitInt(code) ==
    CASE code = "OK" -> 0
      [] code = "TESTS_FAILED" -> 1
      [] code = "INTERNAL_ERROR" -> 3

\* the exit code the host arrives at: INTERNAL_ERROR after an exception
HostExitCodes(err) ==
    IF err = "none" THEN {"OK", "TESTS_FAILED"} ELSE {"INTERNAL_ERROR"}

\* pytest_sessionfinish without the hook wrapper: the event is sent at once
pytest_sessionfinish_enter_sends ==
    /\ pc = "exit"
    /\ \E exitstatus \in HostExitCodes(error) :
        /\ workeroutput' = [exitstatus |-> ExitInt(exitstatus)]
        /\ events' = sendevent(events, [name |-> "workerfinished",
                                        workeroutput |-> workeroutput'])
        /\ finish' = finish \o <<[step |-> "recorded", exitstatus |-> exitstatus],
                                 [step |-> "sent"]>>
    /\ pc' = "sessionfinish"
    /\ UNCHANGED <<items, torun, name, item_index, error, exitReason,
                   received, enqueued, drained, executed, remain, hostvars>>

\* pytest_sessionfinish up to its yield: the exit status is recorded
pytest_sessionfinish_enter ==
    /\ pc = "exit"
    /\ \E exitstatus \in HostExitCodes(error) :
        /\ workeroutput' = [exitstatus |-> ExitInt(exitstatus)]
        /\ finish' = Append(finish, [step |-> "recorded", exitstatus |-> exitstatus])
    /\ pc' = "sessionfinish"
    /\ UNCHANGED <<items, torun, name, item_index, events, error, exitReason,
                   received, enqueued, drained, executed, remain, hostvars>>

\* the yield of pytest_sessionfinish: the host runs the other
\* implementations of the hook
host_sessionfinish ==
    /\ pc = "sessionfinish"
    /\ finish' = Append(finish, [step |-> "finalized"])
    /\ pc' = "sessionfinish_resume"
    /\ UNCHANGED <<items, torun, name, item_index, events, workeroutput, error,
                   exitReason, received, enqueued, drained, executed, remain,
                   hostvars>>

\* pytest_sessionfinish after its yield: workerfinished is sent
pytest_sessionfinish_leave ==
    /\ pc = "sessionfinish_resume"
    /\ events' = sendevent(events, [name |-> "workerfinished",
                                    workeroutput |-> workeroutput])
    /\ finish' = Append(finish, [step |-> "sent"])
    /\ pc' = "finished"
    /\ UNCHANGED <<items, torun, name, item_index, workeroutput, error,
                   exitReason, received, enqueued, drained, executed, remain,
                   hostvars>>

\* ------------------------------------------------------------- warnings
\* a Python value: what it is, and whether execnet's dumps can encode it
Val(tag, enc) == [tag |-> tag, enc |-> enc]

\* dumps(v) does not raise DumpError (None is encodable; a tuple is when
\* all its elements are)
Encodable(v) == v = None \/ v.enc

\* a Python tuple of values
Tuple(elems) == [elems |-> elems]

TupleEncodable(args) == \A k \in DOMAIN args.elems : args.elems[k].enc

\* repr(v): a string
Repr(v) == [tag |-> <<"repr", v.tag>>, enc |-> TRUE]

\* str(warning_message.message) of a Warning instance: a string made from
\* its arguments
StrOfWarning(msg) ==
    [tag |-> <<"str", [k \in DOMAIN msg.args.elems |-> msg.args.elems[k].tag]>>, enc |-> TRUE]

\* warning_message._WARNING_DETAILS, which varies between Python versions
WarningDetails ==
    {<<"message", "category", "filename", "lineno", "file", "line">>,
     <<"message", "category", "filename", "lineno", "file", "line", "source">>}

\* the messages a warning record may carry: a Warning instance with its
\* argument tuple, or a plain string
WarningMessages ==
    {[kind |-> "warning", module |-> "builtins", class |-> "UserWarning",
      args |-> a] :
        a \in {Tuple(<<Val("text", TRUE)>>), Tuple(<<Val("object", FALSE)>>),
               Tuple(<<Val("text", TRUE), Val("object", FALSE)>>)}}
    \cup {[kind |-> "str", text |-> Val("text", TRUE)]}

\* the category of a warning record: a class, or None
WarningCategories == {None, [module |-> "builtins", class |-> "UserWarning"]}

\* the values of the other attributes of a warning record
WarningAttrs ==
    {[filename |-> Val("file.py", TRUE), lineno |-> Val("10", TRUE),
      file |-> f, line |-> l, source |-> src] :
        f \in {None, Val("stream", FALSE)},
        l \in {None, Val("code", TRUE)},
        src \in {None, Val("object", FALSE)}}

\* the warning records the host may hand over
WarningRecords ==
    {[message |-> m, category |-> c, details |-> d, attrs |-> a] :
        m \in WarningMessages, c \in WarningCategories,
        d \in WarningDetails, a \in WarningAttrs}

\* message_args: the arguments when dumps takes them, without the check
MessageArgsUnchecked(msg) ==
    IF msg.kind = "warning" THEN msg.args ELSE None

\* message_args: the arguments when dumps takes them, None otherwise
MessageArgs(msg) ==
    IF msg.kind = "warning"
    THEN IF TupleEncodable(msg.args) THEN msg.args ELSE None
    ELSE None

\* a warning detail that dumps refuses, marked None
DetailValueNone(attr) == IF Encodable(attr) THEN attr ELSE None

\* a warning detail: itself when dumps takes it, its repr otherwise
DetailValue(attr) == IF Encodable(attr) THEN attr ELSE Repr(attr)

\* result[key] = value
Put(result, key, value) ==
    [k \in DOMAIN result \cup {key} |-> IF k = key THEN value ELSE result[k]]

\* the loop over _WARNING_DETAILS
RECURSIVE AddDetails(_, _, _)
AddDetails(result, w, names) ==
    IF names = <<>> THEN result
    ELSE IF Head(names) \in {"message", "category"}
    THEN AddDetails(result, w, Tail(names))
    ELSE AddDetails(Put(result, Head(names), DetailValue(w.attrs[Head(names)])),
                    w, Tail(names))

\* serialize_warning_message(warning_message)
serialize_warning_message(w) ==
    LET msg == w.message
        isWarning == msg.kind = "warning"
        result ==
            [message_str |-> IF isWarning THEN StrOfWarning(msg) ELSE msg.text,
             message_module |-> IF isWarning THEN msg.module ELSE None,
             message_class_name |-> IF isWarning THEN msg.class ELSE None,
             message_args |-> MessageArgs(msg),
             category_module |->
                 IF w.category # None THEN w.category.module ELSE None,
             category_class_name |->
                 IF w.category # None THEN w.category.class ELSE None]
    IN  AddDetails(result, w, w.details)

\* pytest_warning_recorded, called by the host with the warning it captured
pytest_warning_recorded ==
    /\ pc = "collection_finish"
    /\ warning # None
    /\ \A k \in DOMAIN events : events[k].name # "warning_recorded"
    /\ events' = sendevent(events,
                    [name |-> "warning_recorded",
                     warning_message_data |-> serialize_warning_message(warning),
                     when |-> "collect"])
    /\ UNCHANGED <<pc, items, torun, name, item_index, workeroutput, error,
                   exitReason, received, enqueued, drained, executed, remain,
                   finish, hostvars>>

\* the state after WorkerInteractor.__init__: the host has a plan to collect
Init ==
    /\ pc = "sessionstart"
    /\ items \in {Plan(n) : n \in 0..MaxItems}
    /\ torun = <<>>
    /\ name = "none"
    /\ item_index = Unset
    /\ events = <<>>
    /\ workeroutput = <<>>
    /\ error = "none"
    /\ exitReason = "none"
    /\ received = <<>>
    /\ enqueued = <<>>
    /\ drained = <<>>
    /\ executed = <<>>
    /\ remain = 0
    /\ finish = <<>>
    /\ collected = <<>>
    /\ routed = <<>>
    /\ warning = None

Next ==
    \/ pytest_sessionstart
    \/ pytest_collection
    \/ pytest_collection_finish
    \/ pytest_runtestloop
    \/ loop_receive
    \/ loop_receive_eof
    \/ loop_drain
    \/ loop_continue
    \/ loop_shutdown
    \/ pytest_internalerror
    \/ pytest_sessionfinish_enter
    \/ host_sessionfinish
    \/ pytest_sessionfinish_leave

Spec == Init /\ [][Next]_vars

\* the worker's thread keeps running: every hook the host calls and every
\* item execution returns, and a blocked channel.receive() is ended by the
\* controller, which sends a command or closes the channel
FairSpec == Spec /\ WF_vars(Next)

\* a session whose collection makes reports and whose controller closes the
\* channel without a command
NextCollect ==
    \/ pytest_sessionstart
    \/ pytest_collection
    \/ pytest_collectreport
    \/ pytest_collection_finish
    \/ pytest_runtestloop
    \/ loop_receive_eof
    \/ pytest_sessionfinish_enter
    \/ host_sessionfinish
    \/ pytest_sessionfinish_leave

SpecCollect == Init /\ [][NextCollect]_vars

\* a session in which the host routes internal errors while the loop runs
NextIErr ==
    \/ Next
    \/ pytest_internalerror_inloop

SpecIErr == Init /\ [][NextIErr]_vars

\* the start of a session in which the host captures a warning
InitWarning ==
    /\ pc = "sessionstart"
    /\ items \in {Plan(n) : n \in 0..MaxItems}
    /\ torun = <<>>
    /\ name = "none"
    /\ item_index = Unset
    /\ events = <<>>
    /\ workeroutput = <<>>
    /\ error = "none"
    /\ exitReason = "none"
    /\ received = <<>>
    /\ enqueued = <<>>
    /\ drained = <<>>
    /\ executed = <<>>
    /\ remain = 0
    /\ finish = <<>>
    /\ collected = <<>>
    /\ routed = <<>>
    /\ warning \in WarningRecords

NextWarning ==
    \/ pytest_sessionstart
    \/ pytest_collection
    \/ pytest_warning_recorded
    \/ pytest_collection_finish

SpecWarning == InitWarning /\ [][NextWarning]_vars

\* ------------------------------------------------------- derived histories
\* the names of the commands received, in order
RecvNames == [k \in DOMAIN received |-> received[k].name]

\* the indices whose items the host was asked to run, in order
ExecIndices == [k \in DOMAIN executed |-> executed[k].index]

\* (index, lookahead) of every run, in order
ExecPairs == [k \in DOMAIN executed |-> <<executed[k].index, executed[k].nextitem>>]

IsComplete(e) == e.name = "runtest_protocol_complete"

\* item_index of the runtest_protocol_complete events, in order
CompleteIndices ==
    LET done == SelectSeq(events, IsComplete)
    IN  [k \in DOMAIN done |-> done[k].item_index]

IsReport(e) == e.name = "testreport"

\* (item_index, nodeid) of the testreport events, in order
ReportPairs ==
    LET reps == SelectSeq(events, IsReport)
    IN  [k \in DOMAIN reps |-> <<reps[k].item_index, reps[k].nodeid>>]

\* the (index, nodeid) pairs the host reported while running executed[1..k]
RECURSIVE ReportsDue(_)
ReportsDue(k) ==
    IF k = 0 THEN <<>>
    ELSE ReportsDue(k - 1) \o
         [j \in DOMAIN HostReports(executed[k].item.pos) |->
             <<executed[k].index, executed[k].item.nodeid>>]

\* positions in the event stream of the events called n
PosOf(n) == {k \in DOMAIN events : events[k].name = n}

\* how often v occurs in s
Count(s, v) == Cardinality({k \in DOMAIN s : s[k] = v})

\* the run loop is over and the host has moved on
LoopOver == pc \in {"exit", "sessionfinish", "sessionfinish_resume", "finished"}

\* every index of every runtests payload is a position of the plan
AllPayloadValid ==
    \A k \in DOMAIN received : \A j \in DOMAIN received[k].indices :
        0 <= received[k].indices[j] /\ received[k].indices[j] < Len(items)

\* the runs made by the shutdown branch
FinalRuns == {k \in DOMAIN executed : executed[k].phase = "final"}

\* ------------------------------------------------------------------ claims

\* C1 (as amended): the run queue is FIFO and every entry is drained at most
\* once: the indices popped so far followed by the queue are exactly the
\* indices enqueued, in arrival order; every popped index had its item run
\* (all but the last when that one raised IndexError); and when the loop
\* exits after shutdown every enqueued index has been drained.
C1_FifoDrain ==
    /\ enqueued = drained \o torun
    /\ ExecIndices = IF error = "IndexError"
                     THEN SubSeq(drained, 1, Len(drained) - 1) ELSE drained
    /\ (exitReason = "shutdown" => drained = enqueued)

\* C1 witness: a shutdown exit after two enqueueing commands, all three
\* entries drained
C1_Witness ==
    /\ exitReason = "shutdown"
    /\ Len(received) = 3
    /\ Len(drained) = 3
    /\ received[1].name = "runtests" /\ Len(received[1].indices) = 1

\* C1 as stated: every enqueued index is eventually drained exactly once in
\* FIFO order, so none is left when the session has finished without error
\* (here for a controller that sends positions of the plan only).
C1_Original ==
    /\ enqueued = drained \o torun
    /\ ((pc = "finished" /\ error = "none" /\ AllPayloadValid)
          => drained = enqueued)

\* C2: run_one_test is never started while the queue, after the merge of the
\* command just received, holds fewer than 2 entries, unless that command is
\* shutdown.
C2_NoDrainBelowTwo ==
    [][Len(drained') > Len(drained) => (Len(torun) >= 2 \/ name = "shutdown")]_vars

\* C2 witness: runs were made by the drain loop under runtests and by the
\* shutdown branch
C2_Witness ==
    /\ \E k \in DOMAIN executed :
          executed[k].phase = "loop" /\ executed[k].cmd = "runtests"
    /\ FinalRuns # {}

\* C3: at shutdown, after the drain loop, exactly one final item is run if one
\* remains (none if the queue is empty), with lookahead None, and the loop
\* exits; a run has lookahead None only if it is that final run.
C3_ShutdownFinalDrain ==
    /\ \A k \in DOMAIN executed :
          (executed[k].nextitem = None) <=> (executed[k].phase = "final")
    /\ \A k \in FinalRuns : executed[k].cmd = "shutdown" /\ k = Len(executed)
    /\ (exitReason = "shutdown" =>
          /\ remain <= 1
          /\ Cardinality(FinalRuns) = remain
          /\ torun = <<>>
          /\ LoopOver)

\* C3 witness: the loop exited at shutdown after drain-loop runs and one
\* final run
C3_Witness ==
    /\ exitReason = "shutdown"
    /\ remain = 1
    /\ Len(executed) >= 2
    /\ executed[Len(executed)].nextitem = None

\* C4: the lookahead of every run is the plan item at the new head of the
\* queue when the queue is non-empty after the pop, and None otherwise.
C4_Lookahead ==
    \A k \in DOMAIN executed :
        IF executed[k].after # <<>>
        THEN executed[k].nextitem = PyGet(items, Head(executed[k].after))
        ELSE executed[k].nextitem = None

\* C4 witness: a run whose lookahead is not the next item of the plan, and a
\* run with an empty queue behind it
C4_Witness ==
    /\ \E k \in DOMAIN executed :
          /\ executed[k].after # <<>>
          /\ Head(executed[k].after) # executed[k].index + 1
    /\ \E k \in DOMAIN executed : executed[k].after = <<>>

\* C5 (as amended): when every runtests payload names positions of the plan,
\* every index in the run queue is a position of the plan; no queue entry is
\* dequeued more than once; an index value is dequeued at most as often as it
\* was enqueued.
C5_ValidIfSentValid ==
    /\ (AllPayloadValid =>
          \A k \in DOMAIN torun : 0 <= torun[k] /\ torun[k] < Len(items))
    /\ Len(drained) + Len(torun) = Len(enqueued)
    /\ \A k \in DOMAIN drained :
          Count(drained, drained[k]) <= Count(enqueued, drained[k])

\* C5 witness: with valid payloads only, the same index value was dequeued
\* twice
C5_Witness ==
    /\ AllPayloadValid
    /\ \E j, k \in DOMAIN drained : j < k /\ drained[j] = drained[k]

\* C5 as stated: every index in the run queue is a position of the plan
\* whatever the controller sends, and no index value is dequeued twice.
C5_Original ==
    /\ \A k \in DOMAIN torun : 0 <= torun[k] /\ torun[k] < Len(items)
    /\ \A j, k \in DOMAIN drained : j # k => drained[j] # drained[k]

\* C6: on end-of-stream the run loop returns at once and normally: the step
\* that sees it sends nothing, and from then on no item is popped or run, no
\* exception is surfaced and no internal_error event exists.
C6_EofCleanStop ==
    [][exitReason' = "eof" =>
          /\ executed' = executed
          /\ drained' = drained
          /\ torun' = torun
          /\ error' = "none"
          /\ pc' \in {"exit", "sessionfinish", "sessionfinish_resume", "finished"}
          /\ PosOf("internal_error")' = {}
          /\ (pc = "receive" => pc' = "exit" /\ events' = events)]_vars

\* C6 witness: the channel closed mid-run, with runs made and an index still
\* queued, and the session finished
C6_Witness ==
    /\ exitReason = "eof"
    /\ pc = "finished"
    /\ executed # <<>>
    /\ torun # <<>>

\* C7: the assertion of pytest_runtest_logreport never fails; every
\* testreport carries the index of the item being run when it was sent, and
\* its nodeid is the plan's nodeid at that index.
C7_ReportCorrelation ==
    /\ error # "AssertionError"
    /\ ReportPairs = ReportsDue(Len(executed))
    /\ \A k \in DOMAIN ReportPairs :
          /\ PyValid(items, ReportPairs[k][1])
          /\ ReportPairs[k][2] = PyGet(items, ReportPairs[k][1]).nodeid

\* C7 witness: reports of two different items, one of them addressed by a
\* negative index
C7_Witness ==
    /\ \E j, k \in DOMAIN ReportPairs : ReportPairs[j][1] # ReportPairs[k][1]
    /\ \E k \in DOMAIN ReportPairs : ReportPairs[k][1] < 0

\* C8: on a 3-item plan, runtests_all then shutdown: items 0 and 1 are run
\* before shutdown is processed, with lookahead item 1 and item 2; after
\* shutdown item 2 is run with lookahead None; the runtest_protocol_complete
\* events are exactly those of 0, 1, 2 in that order.
C8_RunAllThenShutdown ==
    Len(items) = 3 =>
        /\ ((RecvNames = <<"runtests_all">> /\ pc = "receive")
            \/ (RecvNames = <<"runtests_all", "shutdown">> /\ pc = "drain")) =>
              /\ ExecPairs = << <<0, Item(1)>>, <<1, Item(2)>> >>
              /\ CompleteIndices = <<0, 1>>
        /\ (RecvNames = <<"runtests_all", "shutdown">> /\ pc # "drain") =>
              /\ ExecPairs = << <<0, Item(1)>>, <<1, Item(2)>>, <<2, None>> >>
              /\ [k \in DOMAIN executed |-> executed[k].item]
                    = <<Item(0), Item(1), Item(2)>>
              /\ CompleteIndices = <<0, 1, 2>>
              /\ LoopOver

\* C8 witness: the scenario has run to the end of the session
C8_Witness ==
    /\ Len(items) = 3
    /\ RecvNames = <<"runtests_all", "shutdown">>
    /\ pc = "finished"

\* the commands of scenario 2
RunTwoZero == [name |-> "runtests", indices |-> <<2, 0>>]

\* C9: on a 3-item plan, runtests [2, 0] then shutdown: item 2 is run first,
\* item 0 second, and item 1 is never run.
C9_InsertionOrder ==
    (/\ Len(items) = 3
     /\ received # <<>>
     /\ received[1] = RunTwoZero
     /\ (Len(received) = 1 \/ (Len(received) = 2 /\ received[2].name = "shutdown")))
    =>  /\ ExecIndices \in {<<>>, <<2>>, <<2, 0>>}
        /\ \A k \in DOMAIN executed : executed[k].item = Item(executed[k].index)
        /\ ((Len(received) = 2 /\ pc # "drain") =>
              ExecIndices = <<2, 0>> /\ CompleteIndices = <<2, 0>> /\ LoopOver)

\* C9 witness: the scenario has run to the end of the session
C9_Witness ==
    /\ Len(items) = 3
    /\ Len(received) = 2
    /\ received[1] = RunTwoZero
    /\ received[2].name = "shutdown"
    /\ pc = "finished"

\* C10: collectionstart precedes every testreport, and every testreport
\* precedes workerfinished.
C10_EventOrder ==
    \A r \in PosOf("testreport") :
        /\ \E c \in PosOf("collectionstart") : c < r
        /\ \A c \in PosOf("collectionstart") : c < r
        /\ \A w \in PosOf("workerfinished") : r < w

\* C10 witness: a finished session that sent testreports and workerfinished
C10_Witness ==
    /\ pc = "finished"
    /\ PosOf("testreport") # {}
    /\ PosOf("workerfinished") # {}
    /\ PosOf("collectionstart") # {}

\* the steps of the finish sequence taken so far
FinishSteps == [k \in DOMAIN finish |-> finish[k].step]

\* C11: at session finish the exit status is recorded in Worker Output first,
\* then the host's other finish implementations run, then workerfinished is
\* sent; its payload is Worker Output, holding int(exitstatus) of the status
\* the host passed; workerfinished is sent at most once and nothing follows it.
C11_FinishOrder ==
    /\ FinishSteps \in {<<>>, <<"recorded">>, <<"recorded", "finalized">>,
                        <<"recorded", "finalized", "sent">>}
    /\ Cardinality(PosOf("workerfinished")) <= 1
    /\ (PosOf("workerfinished") # {}) <=> (Len(finish) = 3)
    /\ (finish # <<>> => workeroutput.exitstatus = ExitInt(finish[1].exitstatus))
    /\ \A w \in PosOf("workerfinished") :
          /\ w = Len(events)
          /\ events[w].workeroutput = workeroutput
          /\ events[w].workeroutput.exitstatus = ExitInt(finish[1].exitstatus)

\* C11 witness: a session that ran items finished with failed tests
C11_Witness ==
    /\ pc = "finished"
    /\ executed # <<>>
    /\ finish[1].exitstatus = "TESTS_FAILED"
    /\ events[Len(events)].name = "workerfinished"
    /\ events[Len(events)].workeroutput.exitstatus = 1

IsCollectEvent(e) == e.name = "collectreport"

\* the payloads of the collectreport events, in order
CollectEventData ==
    LET evs == SelectSeq(events, IsCollectEvent)
    IN  [k \in DOMAIN evs |-> evs[k].data]

NotPassed(report) == report.outcome # "passed"

\* C12: a collection report that passed never produces a collectreport
\* event, and one that did not pass (failed, or skipped) produces exactly
\* one: the collectreport events are the reports that did not pass, in order.
C12_CollectSuppression ==
    /\ LET due == SelectSeq(collected, NotPassed)
       IN  CollectEventData =
             [k \in DOMAIN due |->
                [report_type |-> "CollectReport", nodeid |-> due[k].nodeid,
                 outcome |-> due[k].outcome]]
    /\ \A k \in DOMAIN collected :
          LET sent == {j \in DOMAIN CollectEventData :
                          CollectEventData[j].nodeid = collected[k].nodeid}
          IN  /\ collected[k].outcome = "passed" => sent = {}
              /\ collected[k].outcome = "failed" => Cardinality(sent) = 1

\* C12 witness: a passing and a failing report were handled, the session is
\* over and one collectreport was sent
C12_Witness ==
    /\ pc = "finished"
    /\ \E j, k \in DOMAIN collected :
          collected[j].outcome = "passed" /\ collected[k].outcome = "failed"
    /\ Len(CollectEventData) = 1

\* the keys every serialized warning has
FixedWarningKeys ==
    {"message_str", "message_module", "message_class_name", "message_args",
     "category_module", "category_class_name"}

\* the detail attributes of the warning handed over, message and category
\* left out
DetailNames ==
    {warning.details[k] : k \in DOMAIN warning.details} \ {"message", "category"}

\* the payloads of the warning_recorded events
WarningData ==
    {events[k].warning_message_data : k \in PosOf("warning_recorded")}

C14_WarningArgs ==
    \A data \in WarningData :
        warning.message.kind = "warning" =>
            /\ data.message_args =
                  IF \A k \in DOMAIN warning.message.args.elems : warning.message.args.elems[k].enc
                  THEN warning.message.args ELSE None
            /\ data.message_str =
                  [tag |-> <<"str", [k \in DOMAIN warning.message.args.elems |->
                                        warning.message.args.elems[k].tag]>>,
                   enc |-> TRUE]
            /\ data.message_module = warning.message.module
            /\ data.message_class_name = warning.message.class

\* C14 witness: a Warning instance whose argument tuple holds an unencodable
\* element was serialized with message_args None
C14_Witness ==
    \E data \in WarningData :
        /\ warning.message.kind = "warning"
        /\ \E k \in DOMAIN warning.message.args.elems : ~warning.message.args.elems[k].enc
        /\ data.message_args = None
        /\ data.message_module = "builtins"

IsRunEvent(e) ==
    e.name \in {"logstart", "testreport", "logfinish", "runtest_protocol_complete"}

\* the events of the run phase, in order
RunEvents == SelectSeq(events, IsRunEvent)

\* the events one executed item must have produced
ItemEvents(run) ==
    <<[name |-> "logstart", nodeid |-> run.item.nodeid]>>
    \o [j \in DOMAIN HostReports(run.item.pos) |->
           [name |-> "testreport", item_index |-> run.index,
            nodeid |-> run.item.nodeid, when |-> HostReports(run.item.pos)[j]]]
    \o <<[name |-> "logfinish", nodeid |-> run.item.nodeid],
         [name |-> "runtest_protocol_complete", item_index |-> run.index]>>

\* the events the first k executed items must have produced, item after item
RECURSIVE ItemEventsUpTo(_)
ItemEventsUpTo(k) ==
    IF k = 0 THEN <<>> ELSE ItemEventsUpTo(k - 1) \o ItemEvents(executed[k])

\* C15: the run-phase events are, item after item in the order the items
\* were run, one logstart, the item's testreports, one logfinish and one
\* runtest_protocol_complete with the item's index; blocks of two items
\* never interleave, and the runtest_protocol_complete indices are the
\* indices popped from the queue, in pop order (an index whose lookup raised
\* was popped last and has no events).
C15_ItemEventOrder ==
    /\ RunEvents = ItemEventsUpTo(Len(executed))
    /\ CompleteIndices = ExecIndices
    /\ CompleteIndices = SubSeq(drained, 1, Len(CompleteIndices))
    /\ error = "none" => CompleteIndices = drained

\* C15 witness: two items were run, one with several reports and one with
\* none, and the loop is over
C15_Witness ==
    /\ LoopOver
    /\ Len(executed) >= 2
    /\ \E k \in DOMAIN executed : Len(HostReports(executed[k].item.pos)) >= 2
    /\ \E k \in DOMAIN executed : HostReports(executed[k].item.pos) = <<>>

\* what a command contributes to the queue: a runtests its indices in
\* payload order, a runtests_all the positions 0..count-1 of the plan
Contribution(cmd) ==
    IF cmd.name = "runtests" THEN cmd.indices
    ELSE IF cmd.name = "runtests_all" THEN [j \in 1..Len(items) |-> j - 1]
    ELSE <<>>

\* the contributions of the first k commands received, in arrival order
RECURSIVE Arrivals(_)
Arrivals(k) ==
    IF k = 0 THEN <<>> ELSE Arrivals(k - 1) \o Contribution(received[k])

\* C18: when the run loop exits on shutdown the run queue is empty and the
\* indices executed are the concatenation, in arrival order, of what the
\* commands before it enqueued, duplicates as often as they were enqueued.
C18_ShutdownRunsAll ==
    exitReason = "shutdown" =>
        /\ torun = <<>>
        /\ ExecIndices = Arrivals(Len(received))
        /\ \A i \in IndexDomain(items) :
              Count(ExecIndices, i) = Count(Arrivals(Len(received)), i)

\* C18 witness: a runtests_all and a runtests naming an index twice were
\* received, then shutdown ended the loop
C18_Witness ==
    /\ exitReason = "shutdown"
    /\ \E k \in DOMAIN received : received[k].name = "runtests_all"
    /\ \E k \in DOMAIN received :
          /\ received[k].name = "runtests"
          /\ \E i, j \in DOMAIN received[k].indices :
                i # j /\ received[k].indices[i] = received[k].indices[j]
    /\ Len(executed) >= 3

\* C19: whenever the run loop waits on channel.receive() the run queue holds
\* at most one entry; so when the loop ends on end-of-stream at most one
\* enqueued index was not executed, and it is the one enqueued last.
C19_ReceiveLeavesOne ==
    /\ pc = "receive" => Len(torun) <= 1
    /\ exitReason = "eof" =>
          /\ Len(torun) <= 1
          /\ ExecIndices \o torun = Arrivals(Len(received))
          /\ torun # <<>> =>
                torun[1] = Arrivals(Len(received))[Len(Arrivals(Len(received)))]

\* C19 witness: the loop ended on end-of-stream after running items, with
\* the index enqueued last still in the queue
C19_Witness ==
    /\ exitReason = "eof"
    /\ Len(executed) >= 2
    /\ Len(torun) = 1

\* the command names the run loop knows
KnownNames == {"runtests", "runtests_all", "shutdown"}

\* C20: receiving a command whose name the loop does not know changes
\* neither the run queue nor the current item index, runs no item and sends
\* no event; the queue then holds at most one entry, so the only step the
\* loop takes after it is back to channel.receive(), again changing nothing.
C20_UnknownCommandFrame ==
    [][/\ (pc = "receive" /\ pc' = "drain" /\ name' \notin KnownNames) =>
            /\ torun' = torun
            /\ item_index' = item_index
            /\ events' = events
            /\ executed' = executed
            /\ drained' = drained
       /\ (pc = "drain" /\ name \notin KnownNames) =>
            /\ Len(torun) <= 1
            /\ pc' = "receive"
            /\ torun' = torun
            /\ item_index' = item_index
            /\ events' = events
            /\ executed' = executed
            /\ drained' = drained]_vars

\* C20 witness: an unknown command arrived while an index was queued, the
\* index was still queued afterwards, and a later shutdown ran it
C20_Witness ==
    /\ Len(received) = 3
    /\ received[1].name = "runtests" /\ Len(received[1].indices) = 1
    /\ received[2].name \notin KnownNames
    /\ received[3].name = "shutdown"
    /\ ExecIndices = received[1].indices
    /\ executed[1].cmd = "shutdown"

\* control has left the run loop, by return or by exception
LoopLeft == pc = "raised" \/ LoopOver

\* C16 (as written): whenever control has left the run loop, here after it
\* ran an item, the loop ended on end-of-stream or on a processed shutdown.
C16_Original ==
    (LoopLeft /\ executed # <<>>) => exitReason \in {"eof", "shutdown"}

\* C16 (as amended): the run loop returns only on end-of-stream or after a
\* processed shutdown, and is otherwise left only by an IndexError that
\* run_one_test raises for a runtests index outside the plan; a shutdown is
\* the last command received; once control has left the loop no command is
\* received or merged and no item is run; and with the worker's thread
\* running and the controller ending every receive, control leaves the loop.
C16_LoopExit ==
    /\ [](LoopLeft =>
            /\ exitReason \in {"eof", "shutdown", "error"}
            /\ exitReason = "error" => error = "IndexError" /\ ~AllPayloadValid
            /\ exitReason = "shutdown" =>
                  received # <<>> /\ received[Len(received)].name = "shutdown"
            /\ exitReason = "eof" =>
                  \A k \in DOMAIN received : received[k].name # "shutdown")
    /\ [](~LoopLeft => exitReason = "none")
    /\ [](\A k \in DOMAIN received :
            received[k].name = "shutdown" => k = Len(received))
    /\ [][LoopLeft =>
            /\ received' = received
            /\ torun' = torun
            /\ executed' = executed
            /\ drained' = drained]_vars
    /\ (pc = "receive") ~> LoopLeft

\* C16 witness: commands of every kind were received without ending the
\* loop, then shutdown ended it after the last item was run
C16_Witness ==
    /\ pc = "finished"
    /\ exitReason = "shutdown"
    /\ Len(received) = 3
    /\ received[1].name = "runtests_all"
    /\ received[2].name \notin KnownNames
    /\ Len(executed) >= 2

\* the number of internal_error events sent so far
IErrCount == Cardinality(PosOf("internal_error"))

\* C17 (as written): once an internal error was routed, here in a session
\* that ran an item, the run loop is still running or has ended for the
\* usual reasons, end-of-stream or shutdown.
C17_Original ==
    (PosOf("internal_error") # {} /\ executed # <<>>) =>
        (~LoopLeft \/ exitReason \in {"eof", "shutdown"})

\* C17 (as amended): a step that routes an internal error appends exactly
\* one internal_error event carrying the formatted error and leaves the run
\* queue, the current item index and the worker output as they are; when the
\* run loop is running it is still running afterwards, at the same place;
\* the only other errors routed are the exceptions that had already left the
\* run loop, after which no command is received.
C17_InternalErrorFrame ==
    [][IErrCount' # IErrCount =>
          /\ Len(routed') = Len(routed) + 1
          /\ events' = Append(events,
                [name |-> "internal_error",
                 formatted_error |-> routed'[Len(routed')].exc])
          /\ torun' = torun
          /\ item_index' = item_index
          /\ workeroutput' = workeroutput
          /\ received' = received
          /\ executed' = executed
          /\ IF pc \in {"receive", "drain"}
             THEN pc' = pc /\ exitReason' = "none" /\ error' = "none"
             ELSE pc = "raised" /\ exitReason = "error" /\ error # "none"]_vars

\* C17 witness: an internal error was routed while the loop was running,
\* after it a further command was received and an item was run, and the
\* loop ended on shutdown
C17_Witness ==
    /\ exitReason = "shutdown"
    /\ \E k \in DOMAIN routed : routed[k].at < Len(received) - 1
    /\ \E k \in PosOf("internal_error") :
          \E j \in PosOf("runtest_protocol_complete") : k < j
    /\ \E k \in PosOf("internal_error") :
          \E j \in PosOf("runtest_protocol_complete") : j < k

====
